---- MODULE Spec2Model ----
(***************************************************************************)
(* Model of the market-analysis dashboard (src/app.py) and of the          *)
(* synthetic transaction generator (src/generate_data.py).                 *)
(*                                                                         *)
(* Three specifications share the module:                                  *)
(*   SpecForecast   run_prophet_forecast as a function of its arguments    *)
(*   SpecGenerator  the generate_data.py script, one loop iteration a step *)
(*   Spec           one dashboard session: the script of app.py re-run on  *)
(*                  every widget interaction                               *)
(*                                                                         *)
(* Calendar dates are day numbers 1, 2, ...; a calendar year is a block of *)
(* DaysPerYear consecutive day numbers.  A missing cell of a table (NaN,   *)
(* NaT) is the value NA.                                                   *)
(***************************************************************************)
EXTENDS Integers, Sequences, FiniteSets

\* ------------------------------------------------------------- bounds
\* Most rows of a source file (products.csv, sales_transactions.csv).
MaxRows == 2
\* Latest day number appearing in a source file.
MaxDate == 5
\* Most rows of a table handed to run_prophet_forecast on its own.
MaxSliceRows == 3
\* Latest day number in such a table.
MaxSliceDate == 3
\* Day numbers per calendar year.
DaysPerYear == 2
\* Largest value of a numeric column (Price).
MaxVal == 2
\* Largest horizon handed to run_prophet_forecast on its own.
MaxPeriods == 2

\* A missing cell: pandas reads an empty CSV field as NaN / NaT.
NA == -1

Dates == 1..MaxDate
Vals == 1..MaxVal

\* ------------------------------------------------------------ helpers
Range(s) == {s[i] : i \in 1..Len(s)}

SetMin(S) == CHOOSE x \in S : \A y \in S : x <= y

SetMax(S) == CHOOSE x \in S : \A y \in S : y <= x

RECURSIVE SortedSeq(_)
SortedSeq(S) ==
    IF S = {} THEN <<>>
    ELSE LET m == SetMin(S) IN <<m>> \o SortedSeq(S \ {m})

\* All sequences over S of length 0..n.
SeqsUpTo(S, n) == UNION {[1..k -> S] : k \in 0..n}

VARIABLES
    \* --- run_prophet_forecast (SpecForecast)
    df,           \* the table argument: [hasDate, hasValue, rows]
    periods,      \* the horizon argument
    pcF,          \* "call" before the call, "done" after it
    ret,          \* "none" = (None, None), "pair" = (model, forecast), "raise"
    fit,          \* "notcalled", "ok", "raised": what became of model.fit
    prophet_df,   \* the rows handed to model.fit (<<>> when it is not called)
    future,       \* the dates handed to model.predict
    \* --- generate_data.py (SpecGenerator)
    products_csv, \* products.csv as the generator finds it
    gen,          \* the script's own state
    out_csv,      \* sales_transactions.csv as the generator leaves it
    \* --- the dashboard session (Spec)
    disk,         \* the two source files as the dashboard finds them
    session_state,\* st.session_state
    loads,        \* calls of load_data made so far, per file
    widgets,      \* the two sliders' values
    page          \* what the last run of the script rendered

varsF == <<df, periods, pcF, ret, fit, prophet_df, future>>
varsG == <<products_csv, gen, out_csv>>
varsD == <<disk, session_state, loads, widgets, page>>
vars == <<varsF, varsG, varsD>>

\* ------------------------------------------------ run_prophet_forecast
\* The (date_col, value_col) slices of the tables run_prophet_forecast is
\* given: a cell may be missing, rows may repeat, and a column the table
\* does not have holds nothing in any row.
SliceTables ==
    LET ds == (1..MaxSliceDate) \cup {NA}
        ys == Vals \cup {NA}
        Tables(hasDate, hasValue) ==
            [hasDate : {hasDate}, hasValue : {hasValue},
             rows : SeqsUpTo([ds : IF hasDate THEN ds ELSE {NA},
                              y : IF hasValue THEN ys ELSE {NA}], MaxSliceRows)]
    IN  Tables(TRUE, TRUE) \cup Tables(FALSE, TRUE)
            \cup Tables(TRUE, FALSE) \cup Tables(FALSE, FALSE)

\* df.empty: no rows, or no columns at all.
DfEmpty(d) == Len(d.rows) = 0 \/ (~d.hasDate /\ ~d.hasValue)

\* The guard of line 58 with len(df) < 1: lets a one-row table through.
InsufficientData_len1(d) ==
    DfEmpty(d) \/ ~d.hasDate \/ ~d.hasValue \/ Len(d.rows) < 1

\* The guard of line 58 counting distinct complete rows instead of rows.
InsufficientData_distinct(d) ==
    \/ DfEmpty(d) \/ ~d.hasDate \/ ~d.hasValue
    \/ Cardinality({r \in Range(d.rows) : r.ds # NA /\ r.y # NA}) < 2

\* Line 58: the condition under which (None, None) is returned.
InsufficientData(d) ==
    DfEmpty(d) \/ ~d.hasDate \/ ~d.hasValue \/ Len(d.rows) < 2

\* Line 60: df[[date_col, value_col]].rename(...): the same rows, in order,
\* duplicates and missing cells kept.
Project(d) == d.rows

\* Line 62: Prophet.fit drops the rows whose y is missing, raises ValueError
\* when fewer than 2 remain, and raises when a remaining row has no ds.
ProphetFitRaises(pdf) ==
    LET history == {i \in 1..Len(pdf) : pdf[i].y # NA}
    IN  \/ Cardinality(history) < 2
        \/ \E i \in history : pdf[i].ds = NA

\* The model's history_dates: the distinct dates of the frame handed to fit
\* (rows without y included), sorted, a missing date last.
HistoryDates(pdf) ==
    LET ds == {pdf[i].ds : i \in 1..Len(pdf)}
    IN  SortedSeq(ds \ {NA}) \o (IF NA \in ds THEN <<NA>> ELSE <<>>)

\* The last history date: the maximum skips a missing date.
LastDate(pdf) == SetMax({pdf[i].ds : i \in 1..Len(pdf)} \ {NA})

\* Line 64: Prophet.predict raises ValueError when a date to predict is
\* missing, which is when a history date is.
ProphetPredictRaises(pdf) == NA \in Range(HistoryDates(pdf))

\* make_future_dataframe extending from the last date itself.
MakeFutureDataframe_fromLast(pdf, h) ==
    HistoryDates(pdf) \o [k \in 1..h |-> LastDate(pdf) + k - 1]

\* Line 63: make_future_dataframe(periods): the history dates followed by
\* `periods` daily dates after the last of them.
MakeFutureDataframe(pdf, h) ==
    HistoryDates(pdf) \o [k \in 1..h |-> LastDate(pdf) + k]

\* Lines 56-65, the outcome only: "none" is (None, None), "pair" is
\* (model, forecast), "raise" is an error of the model left uncaught.
ForecastReturn(d) ==
    IF InsufficientData(d) THEN "none"
    ELSE IF ProphetFitRaises(Project(d)) THEN "raise"
    ELSE IF ProphetPredictRaises(Project(d)) THEN "raise"
    ELSE "pair"

\* Lines 56-65.
RunProphetForecast ==
    /\ pcF = "call"
    /\ pcF' = "done"
    /\ ret' = ForecastReturn(df)
    /\ IF InsufficientData(df)
       THEN /\ fit' = "notcalled"
            /\ prophet_df' = <<>>
            /\ future' = <<>>
       ELSE /\ prophet_df' = Project(df)
            /\ IF ProphetFitRaises(Project(df))
               THEN /\ fit' = "raised"
                    /\ future' = <<>>
               ELSE /\ fit' = "ok"
                    /\ future' = MakeFutureDataframe(Project(df), periods)
    /\ UNCHANGED <<df, periods>>
    /\ UNCHANGED <<varsG, varsD>>

IdleF ==
    /\ df = [hasDate |-> FALSE, hasValue |-> FALSE, rows |-> <<>>]
    /\ periods = 1
    /\ pcF = "idle"
    /\ ret = "none"
    /\ fit = "notcalled"
    /\ prophet_df = <<>>
    /\ future = <<>>

IdleG ==
    /\ products_csv = [exists |-> FALSE, rows |-> <<>>]
    /\ gen = [pc |-> "idle"]
    /\ out_csv = [exists |-> FALSE, rows |-> <<>>]

IdleD ==
    /\ disk = [products |-> [exists |-> FALSE, rows |-> <<>>],
               sales |-> [exists |-> FALSE, rows |-> <<>>]]
    /\ session_state = [products_df |-> [set |-> FALSE], sales_df |-> [set |-> FALSE]]
    /\ loads = [products |-> 0, sales |-> 0]
    /\ widgets = [product_forecast_slider |-> 0, customer_forecast_slider |-> 0]
    /\ page = [run |-> FALSE]

InitForecast ==
    /\ df \in SliceTables
    /\ periods \in 1..MaxPeriods
    /\ pcF = "call"
    /\ ret = "none"
    /\ fit = "notcalled"
    /\ prophet_df = <<>>
    /\ future = <<>>
    /\ IdleG
    /\ IdleD

NextForecast == RunProphetForecast

SpecForecast == InitForecast /\ [][NextForecast]_vars

\* ---------------------------------------------------- generate_data.py
\* Line 17, scaled down: iterations of the generation loop.
NUM_TRANSACTIONS == 2
\* Line 16, scaled down: size of the customer pool.
NUM_CUSTOMERS == 1
\* Line 37: quantity = random.randint(1, MaxQuantity).
MaxQuantity == 4
\* Line 40: TransactionID = "T-" + (FirstTransactionNo + _).
FirstTransactionNo == 1001

\* A Product Table: row i carries Product_ID i (identifiers are unique) and
\* a price.
ProductTables ==
    UNION {{[i \in 1..k |-> [Product_ID |-> i, Price |-> f[i]]] : f \in [1..k -> Vals]}
             : k \in 0..MaxRows}

\* A sales_transactions.csv left by an earlier run.
OldSales ==
    <<[TransactionID |-> FirstTransactionNo, CustomerID |-> 1, ProductID |-> 1,
       Quantity |-> 1, PricePerItem |-> 1, TotalPrice |-> 1]>>

\* Line 32 without the mask: the price of the table's first row.
LookupPrice_firstRow(products, product_id) == products[1].Price

\* Line 32: products_df.loc[products_df['Product_ID'] == product_id, 'Price'].iloc[0],
\* the price of the first row carrying the identifier.
LookupPrice(products, product_id) ==
    LET hits == {i \in 1..Len(products) : products[i].Product_ID = product_id}
    IN  products[SetMin(hits)].Price

\* An IndexError swallowed: the script goes on to the write.
OnIndexError_swallowed == "write"

\* Line 29: random.choice of an empty list raises IndexError, which nothing
\* catches: the script ends there.
OnIndexError == "failed"

\* Lines 9-25: read products.csv (exit() when it does not exist), build the
\* customer pool and the identifier list, start with no transactions.
LoadProducts ==
    /\ gen.pc = "start"
    /\ IF ~products_csv.exists
       THEN gen' = [gen EXCEPT !.pc = "exited"]
       ELSE gen' = [gen EXCEPT !.pc = "loop",
                               !.products_df = products_csv.rows,
                               !.customer_ids = [c \in 1..NUM_CUSTOMERS |-> c],
                               !.product_ids =
                                   [i \in 1..Len(products_csv.rows) |->
                                       products_csv.rows[i].Product_ID],
                               !.transactions = <<>>,
                               !.i = 0]
    /\ UNCHANGED <<products_csv, out_csv>>
    /\ UNCHANGED <<varsF, varsD>>

\* Lines 26-47: one iteration of the loop.
Iterate ==
    /\ gen.pc = "loop"
    /\ gen.i < NUM_TRANSACTIONS
    /\ IF Len(gen.product_ids) = 0
       THEN gen' = [gen EXCEPT !.pc = OnIndexError]
       ELSE \E customer_id \in Range(gen.customer_ids),
               product_id \in Range(gen.product_ids),
               quantity \in 1..MaxQuantity :
              LET price == LookupPrice(gen.products_df, product_id)
                  row == [TransactionID |-> FirstTransactionNo + gen.i,
                          CustomerID |-> customer_id,
                          ProductID |-> product_id,
                          Quantity |-> quantity,
                          PricePerItem |-> price,
                          TotalPrice |-> price * quantity]
              IN  gen' = [gen EXCEPT
                            !.transactions = Append(@, row),
                            !.i = @ + 1,
                            !.pc = IF gen.i + 1 = NUM_TRANSACTIONS
                                   THEN "write" ELSE "loop"]
    /\ UNCHANGED <<products_csv, out_csv>>
    /\ UNCHANGED <<varsF, varsD>>

\* Lines 50-53: write sales_transactions.csv, replacing what was there.
WriteCsv ==
    /\ gen.pc = "write"
    /\ out_csv' = [exists |-> TRUE, rows |-> gen.transactions]
    /\ gen' = [gen EXCEPT !.pc = "done", !.wrote = TRUE]
    /\ UNCHANGED products_csv
    /\ UNCHANGED <<varsF, varsD>>

InitGenerator ==
    /\ products_csv \in {[exists |-> FALSE, rows |-> <<>>]}
                          \cup {[exists |-> TRUE, rows |-> t] : t \in ProductTables}
    /\ out_csv \in {[exists |-> FALSE, rows |-> <<>>], [exists |-> TRUE, rows |-> OldSales]}
    /\ gen = [pc |-> "start", products_df |-> <<>>, customer_ids |-> <<>>,
              product_ids |-> <<>>, transactions |-> <<>>, i |-> 0,
              wrote |-> FALSE, out0 |-> out_csv]
    /\ IdleF
    /\ IdleD

NextGenerator == LoadProducts \/ Iterate \/ WriteCsv

SpecGenerator == InitGenerator /\ [][NextGenerator]_vars

\* ------------------------------------------ claims on SpecGenerator
\* C4: at every point of the loop, each transaction appended so far names a
\* product of the input table, carries that product's listed price, and has
\* TotalPrice = Quantity * PricePerItem.
C4_ReferentialConsistency ==
    gen.pc \in {"loop", "write", "done", "failed"} =>
        \A k \in 1..Len(gen.transactions) :
            LET t == gen.transactions[k]
            IN  /\ \E i \in 1..Len(products_csv.rows) :
                       /\ products_csv.rows[i].Product_ID = t.ProductID
                       /\ products_csv.rows[i].Price = t.PricePerItem
                /\ t.TotalPrice = t.Quantity * t.PricePerItem
                /\ t.Quantity \in 1..MaxQuantity

\* Two transactions appended, for products of different prices.
C4_Witness ==
    /\ gen.pc \in {"loop", "write", "done"}
    /\ Len(gen.transactions) >= 2
    /\ gen.transactions[1].PricePerItem # gen.transactions[2].PricePerItem
    /\ gen.transactions[2].Quantity > 1

\* C5: with a Product Table of zero rows the run ends in failure: it never
\* reaches the write, and the output file stays as it was found.
C5_EmptyTableNeverWrites ==
    (products_csv.exists /\ Len(products_csv.rows) = 0) =>
        /\ gen.pc \in {"start", "loop", "failed"}
        /\ gen.pc # "failed" => ENABLED (LoadProducts \/ Iterate)
        /\ gen.pc = "loop" => (gen.i = 0 /\ gen.transactions = <<>>)
        /\ ~gen.wrote
        /\ out_csv = gen.out0

\* The run has failed on an empty table, an earlier output file in place.
C5_Witness ==
    /\ products_csv.exists /\ Len(products_csv.rows) = 0
    /\ gen.pc = "failed"
    /\ out_csv.exists /\ out_csv.rows = OldSales

\* ------------------------------------------- claims on SpecForecast
\* The table has 0 rows, exactly 1 row, or lacks a designated column.
TooSmallOrIncomplete == Len(df.rows) = 0 \/ Len(df.rows) = 1 \/ ~df.hasDate \/ ~df.hasValue

\* Distinct rows of the slice whose date and value are both present.
DistinctCompleteRows == {r \in Range(df.rows) : r.ds # NA /\ r.y # NA}

\* C1 as stated: the sentinel (None, None) is returned without fitting for
\* every table with 0 rows, 1 row or a missing column, and every other table
\* is fitted and yields a (model, forecast) pair.
C1_Original ==
    pcF = "done" =>
        IF TooSmallOrIncomplete
        THEN ret = "none" /\ fit = "notcalled"
        ELSE fit = "ok" /\ ret = "pair"

\* C1 amended: the sentinel is returned without fitting for every table with
\* 0 rows, 1 row or a missing column; every other table is handed to the
\* model's fit, and either the (model, forecast) pair is returned or the
\* model's error propagates: never the sentinel, and no pair after a fit
\* that raised.
C1_SentinelOrFit ==
    pcF = "done" =>
        IF TooSmallOrIncomplete
        THEN ret = "none" /\ fit = "notcalled" /\ prophet_df = <<>>
        ELSE /\ fit \in {"ok", "raised"}
             /\ prophet_df = df.rows
             /\ ret \in {"pair", "raise"}
             /\ fit = "raised" => ret = "raise"

C1_Witness ==
    /\ pcF = "done"
    /\ Len(df.rows) >= 2 /\ df.hasDate /\ df.hasValue
    /\ ret = "pair"

\* C2 as stated: a slice with fewer than 2 distinct complete rows yields the
\* absent result and is never handed to the model.
C2_Original ==
    (pcF = "done" /\ df.hasDate /\ df.hasValue /\ Cardinality(DistinctCompleteRows) < 2)
        => (ret = "none" /\ fit = "notcalled")

\* C2 amended: a table with fewer than 2 rows (repeated rows and rows with
\* missing cells counted) yields the absent result and is never handed to
\* the model; a table of 2 or more rows with both columns is handed to the
\* model as it is, also when fewer than 2 of its rows are distinct and
\* complete.
C2_RowCountOnly ==
    pcF = "done" =>
        /\ Len(df.rows) < 2 => (ret = "none" /\ fit = "notcalled" /\ prophet_df = <<>>)
        /\ (Len(df.rows) >= 2 /\ df.hasDate /\ df.hasValue
              /\ Cardinality(DistinctCompleteRows) < 2)
             => (ret # "none" /\ fit # "notcalled" /\ prophet_df = df.rows)

C2_Witness ==
    /\ pcF = "done"
    /\ Len(df.rows) >= 2 /\ df.hasDate /\ df.hasValue
    /\ Cardinality(DistinctCompleteRows) < 2
    /\ fit # "notcalled"

\* A valid input: at least 2 rows, both columns, no missing cell.
ValidInput ==
    /\ Len(df.rows) >= 2 /\ df.hasDate /\ df.hasValue
    /\ \A i \in 1..Len(df.rows) : df.rows[i].ds # NA /\ df.rows[i].y # NA

ObservedDates == {df.rows[i].ds : i \in 1..Len(df.rows)}

\* C3 as stated: for a valid input observed over [d0, d1] and horizon h the
\* dates to predict are exactly the calendar days d0 .. d1+h, each once.
C3_Original ==
    (pcF = "done" /\ ValidInput /\ ret = "pair") =>
        LET d0 == SetMin(ObservedDates)
            d1 == SetMax(ObservedDates)
        IN  /\ Range(future) = d0..(d1 + periods)
            /\ Len(future) = d1 + periods - d0 + 1

\* C3 amended: the dates to predict are, in increasing order and each once,
\* the distinct observed dates followed by the h days d1+1 .. d1+h; a day
\* between d0 and d1 on which nothing was observed is not among them.
C3_HistoryThenHorizon ==
    (pcF = "done" /\ ValidInput /\ ret = "pair") =>
        LET d1 == SetMax(ObservedDates)
        IN  /\ Range(future) = ObservedDates \cup ((d1 + 1)..(d1 + periods))
            /\ Len(future) = Cardinality(ObservedDates) + periods
            /\ \A i \in 1..(Len(future) - 1) : future[i] < future[i + 1]

\* A fitted valid input with a repeated date and with a day between d0 and
\* d1 that has no observation.
C3_Witness ==
    /\ pcF = "done" /\ ValidInput /\ ret = "pair"
    /\ \E d \in SetMin(ObservedDates)..SetMax(ObservedDates) : d \notin ObservedDates
    /\ Cardinality(ObservedDates) < Len(df.rows)
    /\ Len(future) > 0

\* ------------------------------------------------- the dashboard session
\* Line 119 / 147: st.slider(label, SliderMin, SliderMax, SliderDefault).
SliderMin == 90
SliderMax == 730
SliderDefault == 365
SliderValues == {SliderMin, SliderDefault, SliderMax}

\* products.csv: Product_ID (unique), Price, Launch_Date, every cell filled.
DashProductTables ==
    UNION {{[i \in 1..k |-> [Product_ID |-> i, Price |-> f[i].Price,
                             Launch_Date |-> f[i].Launch_Date]]
              : f \in [1..k -> [Price : Vals, Launch_Date : Dates]]}
             : k \in 0..MaxRows}

\* sales_transactions.csv: of its columns the charts read TransactionID
\* (unique) and TransactionDate; CustomerID and TotalPrice feed only two
\* displayed metrics and are left out.
DashSalesTables ==
    UNION {{[i \in 1..k |-> [TransactionID |-> FirstTransactionNo + i - 1,
                             TransactionDate |-> f[i]]]
              : f \in [1..k -> Dates]}
             : k \in 0..MaxRows}

SampleProducts ==
    <<[Product_ID |-> 1, Price |-> 1, Launch_Date |-> 1],
      [Product_ID |-> 2, Price |-> 2, Launch_Date |-> 2]>>

SampleSales ==
    <<[TransactionID |-> FirstTransactionNo, TransactionDate |-> 1],
      [TransactionID |-> FirstTransactionNo + 1, TransactionDate |-> 2]>>

NoFile == [exists |-> FALSE, rows |-> <<>>]
File(t) == [exists |-> TRUE, rows |-> t]

\* A key of st.session_state not yet set.
Unset == [set |-> FALSE, hasColumns |-> FALSE, rows |-> <<>>]

\* Lines 33-43: load_data returns the parsed table, or None when the file
\* does not exist.  (st.cache_data is never hit within one session: each
\* path is asked for at most once.)
LoadData(file) ==
    IF file.exists THEN [isNone |-> FALSE, rows |-> file.rows]
    ELSE [isNone |-> TRUE, rows |-> <<>>]

\* Lines 49 / 53: the loaded table, or pd.DataFrame() (no columns, no rows)
\* in place of None.
Stored(loaded) ==
    IF loaded.isNone THEN [set |-> TRUE, hasColumns |-> FALSE, rows |-> <<>>]
    ELSE [set |-> TRUE, hasColumns |-> TRUE, rows |-> loaded.rows]

\* Lines 45-53: each key is filled only when it is not in session_state.
InitializeSessionState(ss, d) ==
    [products_df |-> IF ss.products_df.set THEN ss.products_df
                     ELSE Stored(LoadData(d.products)),
     sales_df |-> IF ss.sales_df.set THEN ss.sales_df
                  ELSE Stored(LoadData(d.sales))]

\* The "Add Product" form appending what was entered to the table.
AddProductSubmit_appends(ss) ==
    [ss EXCEPT !.products_df.rows =
        Append(@, [Product_ID |-> Len(@) + 1, Price |-> 1, Launch_Date |-> 1])]

\* Line 79: a submitted "Add Product" form shows a success message; the
\* session's tables are not touched.
AddProductSubmit(ss) == ss

\* Line 84: the same for "Add Transaction".
AddTransactionSubmit(ss) == ss

\* .empty reading only a header-only file as empty.
IsEmptyTable_headerOnly(t) == t.hasColumns /\ Len(t.rows) = 0

\* Lines 95 / 136: df.empty.
IsEmptyTable(t) == Len(t.rows) = 0 \/ ~t.hasColumns

\* The calendar year of a day number.
YearOf(d) == (d - 1) \div DaysPerYear

\* resample('Y') keeping only the years that have a row.
ResampleYears_observedOnly(rows) ==
    SortedSeq({YearOf(rows[i].Launch_Date) : i \in 1..Len(rows)})

\* Lines 105 / 112: resample('Y') makes one bin per calendar year from the
\* year of the earliest Launch_Date to the year of the latest, in order.
ResampleYears(rows) ==
    LET ys == {YearOf(rows[i].Launch_Date) : i \in 1..Len(rows)}
    IN  SortedSeq(SetMin(ys)..SetMax(ys))

RowsInYear(rows, y) == {i \in 1..Len(rows) : YearOf(rows[i].Launch_Date) = y}

\* The count of a bin taken over the rows up to the bin's year.
CountInYear_cumulative(rows, y) ==
    Cardinality({i \in 1..Len(rows) : YearOf(rows[i].Launch_Date) <= y})

\* Line 105: ['Product_ID'].count() of one bin.
CountInYear(rows, y) == Cardinality(RowsInYear(rows, y))

RECURSIVE SumPrice(_, _)
SumPrice(rows, I) ==
    IF I = {} THEN 0
    ELSE LET i == SetMin(I) IN rows[i].Price + SumPrice(rows, I \ {i})

\* Lines 105-106.
LaunchesByYear(rows) ==
    LET years == ResampleYears(rows)
    IN  [k \in 1..Len(years) |->
            [Launch_Date |-> years[k], Product_ID |-> CountInYear(rows, years[k])]]

\* Lines 112-113: the mean of a bin is total / n, and NaN when n = 0.
PriceByYear(rows) ==
    LET years == ResampleYears(rows)
    IN  [k \in 1..Len(years) |->
            [Launch_Date |-> years[k],
             total |-> SumPrice(rows, RowsInYear(rows, years[k])),
             n |-> Cardinality(RowsInYear(rows, years[k]))]]

\* Line 122: the product table as run_prophet_forecast reads it.
ProductSlice(rows) ==
    [hasDate |-> TRUE, hasValue |-> TRUE,
     rows |-> [i \in 1..Len(rows) |-> [ds |-> rows[i].Launch_Date, y |-> rows[i].Price]]]

\* groupby without the grouping: one row per transaction.
DailyTransactions_ungrouped(rows) ==
    [i \in 1..Len(rows) |-> [TransactionDate |-> rows[i].TransactionDate, TransactionID |-> 1]]

\* Line 150: groupby('TransactionDate')['TransactionID'].count().reset_index():
\* one row per distinct date, in date order, with the day's transactions counted.
DailyTransactions(rows) ==
    LET days == SortedSeq({rows[i].TransactionDate : i \in 1..Len(rows)})
    IN  [k \in 1..Len(days) |->
            [TransactionDate |-> days[k],
             TransactionID |->
                 Cardinality({i \in 1..Len(rows) : rows[i].TransactionDate = days[k]})]]

\* Line 151: the per-day table as run_prophet_forecast reads it.
DailySlice(daily) ==
    [hasDate |-> TRUE, hasValue |-> TRUE,
     rows |-> [k \in 1..Len(daily) |->
                  [ds |-> daily[k].TransactionDate, y |-> daily[k].TransactionID]]]

\* A tab the script did not get to render, or rendered as a warning.
BlankTab(status) ==
    [status |-> status, evaluated |-> {}, count |-> 0, latest |-> 0, by_year |-> <<>>,
     price_by_year |-> <<>>, daily |-> <<>>, forecast_days |-> 0, forecast |-> "notrun"]

\* Lines 89-130.  A table without columns or rows that got past the .empty
\* test would raise (KeyError, NaT.strftime): status "error".
Tab1(t, forecast_days) ==
    IF IsEmptyTable(t) THEN BlankTab("warning")
    ELSE IF ~t.hasColumns \/ Len(t.rows) = 0 THEN BlankTab("error")
    ELSE LET f == ForecastReturn(ProductSlice(t.rows))
         IN  [status |-> IF f = "raise" THEN "error" ELSE "rendered",
              evaluated |-> {"metrics", "launches_by_year", "price_by_year", "forecast"},
              count |-> Cardinality({t.rows[i].Product_ID : i \in 1..Len(t.rows)}),
              latest |-> SetMax({t.rows[i].Launch_Date : i \in 1..Len(t.rows)}),
              by_year |-> LaunchesByYear(t.rows),
              price_by_year |-> PriceByYear(t.rows),
              daily |-> <<>>,
              forecast_days |-> forecast_days,
              forecast |-> IF f = "pair" THEN "chart"
                           ELSE IF f = "none" THEN "warning" ELSE "raise"]

\* Lines 132-163.
Tab2(t, forecast_days) ==
    IF IsEmptyTable(t) THEN BlankTab("warning")
    ELSE IF ~t.hasColumns \/ Len(t.rows) = 0 THEN BlankTab("error")
    ELSE LET daily == DailyTransactions(t.rows)
             f == ForecastReturn(DailySlice(daily))
         IN  [status |-> IF f = "raise" THEN "error" ELSE "rendered",
              evaluated |-> {"metrics", "daily_transactions", "forecast"},
              count |-> Cardinality({t.rows[i].TransactionID : i \in 1..Len(t.rows)}),
              latest |-> 0,
              by_year |-> <<>>,
              price_by_year |-> <<>>,
              daily |-> daily,
              forecast_days |-> forecast_days,
              forecast |-> IF f = "pair" THEN "chart"
                           ELSE IF f = "none" THEN "warning" ELSE "raise"]

\* Lines 68-163: one run of the script.  `submitted` is the form whose
\* button caused the run ("none" for any other cause), w the sliders.
RunScript(submitted, w) ==
    LET ss0 == InitializeSessionState(session_state, disk)
        ss1 == IF submitted = "product" THEN AddProductSubmit(ss0)
               ELSE IF submitted = "transaction" THEN AddTransactionSubmit(ss0)
               ELSE ss0
        t1 == Tab1(ss1.products_df, w.product_forecast_slider)
    IN  /\ session_state' = ss1
        /\ loads' = [products |-> loads.products + (IF session_state.products_df.set THEN 0 ELSE 1),
                     sales |-> loads.sales + (IF session_state.sales_df.set THEN 0 ELSE 1)]
        /\ widgets' = w
        /\ page' = [run |-> TRUE,
                    success |-> submitted,
                    tab1 |-> t1,
                    tab2 |-> IF t1.status = "error" THEN BlankTab("notreached")
                             ELSE Tab2(ss1.sales_df, w.customer_forecast_slider)]
        /\ UNCHANGED disk
        /\ UNCHANGED <<varsF, varsG>>

\* The session's first run of the script.
FirstRun ==
    /\ ~page.run
    /\ RunScript("none", widgets)

\* Line 119: the price-forecast slider is moved (it is on the page only when
\* the product tab rendered).
ProductSliderChange ==
    /\ page.run /\ page.tab1.status = "rendered"
    /\ \E v \in SliderValues \ {widgets.product_forecast_slider} :
          RunScript("none", [widgets EXCEPT !.product_forecast_slider = v])

\* Line 147: the transaction-forecast slider is moved.
CustomerSliderChange ==
    /\ page.run /\ page.tab2.status = "rendered"
    /\ \E v \in SliderValues \ {widgets.customer_forecast_slider} :
          RunScript("none", [widgets EXCEPT !.customer_forecast_slider = v])

\* Lines 75-79: "Add Product" is submitted.
SubmitAddProduct ==
    /\ page.run
    /\ RunScript("product", widgets)

\* Lines 80-84: "Add Transaction" is submitted.
SubmitAddTransaction ==
    /\ page.run
    /\ RunScript("transaction", widgets)

Init ==
    /\ disk \in [products : {NoFile} \cup {File(t) : t \in DashProductTables},
                  sales : {NoFile, File(SampleSales)}]
              \cup [products : {NoFile, File(SampleProducts)},
                    sales : {NoFile} \cup {File(t) : t \in DashSalesTables}]
    /\ session_state = [products_df |-> Unset, sales_df |-> Unset]
    /\ loads = [products |-> 0, sales |-> 0]
    /\ widgets = [product_forecast_slider |-> SliderDefault,
                  customer_forecast_slider |-> SliderDefault]
    /\ page = [run |-> FALSE, success |-> "none",
               tab1 |-> BlankTab("notreached"), tab2 |-> BlankTab("notreached")]
    /\ IdleF
    /\ IdleG

Next ==
    \/ FirstRun
    \/ ProductSliderChange
    \/ CustomerSliderChange
    \/ SubmitAddProduct
    \/ SubmitAddTransaction

Spec == Init /\ [][Next]_vars

\* ---------------------------------------------------- claims on Spec
ProductRows == session_state.products_df.rows
SalesRows == session_state.sales_df.rows
ListedYears == {page.tab1.by_year[k].Launch_Date : k \in 1..Len(page.tab1.by_year)}
ObservedYears == {YearOf(ProductRows[i].Launch_Date) : i \in 1..Len(ProductRows)}

\* C6 as stated: the two yearly rollups leave out every calendar year that
\* has no product row, also one between the earliest and the latest launch.
C6_Original ==
    (page.run /\ page.tab1.status = "rendered") =>
        /\ \A k \in 1..Len(page.tab1.by_year) :
              page.tab1.by_year[k].Launch_Date \in ObservedYears
        /\ \A k \in 1..Len(page.tab1.price_by_year) :
              page.tab1.price_by_year[k].Launch_Date \in ObservedYears

\* C6 amended: the two yearly rollups have one row for every calendar year
\* from the year of the earliest Launch_Date to the year of the latest; a
\* year in between that has no product row is listed with a launch count of
\* 0 and a mean price over no rows (NaN); years outside that range are not
\* listed.
C6_YearsInRangeZeroFilled ==
    (page.run /\ page.tab1.status = "rendered") =>
        LET span == SetMin(ObservedYears)..SetMax(ObservedYears)
        IN  /\ ListedYears = span
            /\ Len(page.tab1.by_year) = Cardinality(span)
            /\ Len(page.tab1.price_by_year) = Cardinality(span)
            /\ \A k \in 1..Len(page.tab1.by_year) :
                  LET y == page.tab1.by_year[k].Launch_Date
                  IN  /\ page.tab1.price_by_year[k].Launch_Date = y
                      /\ y \notin ObservedYears =>
                            /\ page.tab1.by_year[k].Product_ID = 0
                            /\ page.tab1.price_by_year[k].n = 0

\* A rendered launch rollup with a year in range that has no product row.
C6_Witness ==
    /\ page.run /\ page.tab1.status = "rendered"
    /\ \E k \in 1..Len(page.tab1.by_year) :
          /\ page.tab1.by_year[k].Launch_Date \notin ObservedYears
          /\ page.tab1.by_year[k].Product_ID = 0

\* C7: for a non-empty Product Table the launch rollup lists years in
\* strictly increasing order, none twice, and the count of each listed year
\* is the number of product rows launched in that year.
C7_YearsIncreasingCountsExact ==
    (page.run /\ Len(ProductRows) > 0) =>
        /\ page.tab1.status = "rendered"
        /\ \A k \in 1..(Len(page.tab1.by_year) - 1) :
              page.tab1.by_year[k].Launch_Date < page.tab1.by_year[k + 1].Launch_Date
        /\ \A k \in 1..Len(page.tab1.by_year) :
              page.tab1.by_year[k].Product_ID =
                  Cardinality({i \in 1..Len(ProductRows) :
                      YearOf(ProductRows[i].Launch_Date) = page.tab1.by_year[k].Launch_Date})

\* A rendered launch rollup of two years or more, launches in the last.
C7_Witness ==
    /\ page.run /\ page.tab1.status = "rendered"
    /\ Len(page.tab1.by_year) >= 2
    /\ page.tab1.by_year[Len(page.tab1.by_year)].Product_ID >= 1

\* pd.DataFrame(), stored for a file that does not exist.
EmptyStored == [set |-> TRUE, hasColumns |-> FALSE, rows |-> <<>>]

\* C8: when a source file does not exist, load_data is called and returns
\* (the run goes on), an empty table is stored for it, its tab shows the
\* 'empty or not found' warning with no aggregate, rollup or forecast
\* evaluated, and the other tab is rendered as its own table requires.
C8_MissingFileDegrades ==
    page.run =>
        /\ ~disk.sales.exists =>
              /\ session_state.sales_df = EmptyStored
              /\ loads.sales = 1
              /\ page.tab2.status = "warning" /\ page.tab2.evaluated = {}
              /\ page.tab2.forecast = "notrun"
              /\ page.tab1.status =
                    IF Len(disk.products.rows) > 0 THEN "rendered" ELSE "warning"
        /\ ~disk.products.exists =>
              /\ session_state.products_df = EmptyStored
              /\ loads.products = 1
              /\ page.tab1.status = "warning" /\ page.tab1.evaluated = {}
              /\ page.tab1.forecast = "notrun"
              /\ page.tab2.status =
                    IF Len(disk.sales.rows) > 0 THEN "rendered" ELSE "warning"

\* sales_transactions.csv is missing, products.csv is not: the product tab
\* is rendered and the customer tab shows the warning.
C8_Witness ==
    /\ page.run
    /\ ~disk.sales.exists /\ disk.products.exists
    /\ page.tab1.status = "rendered" /\ page.tab1.evaluated # {}
    /\ page.tab2.status = "warning"

\* C9: over any sequence of runs, slider changes and form submissions, a
\* table once stored in session state is never replaced or changed, each
\* file is loaded at most once, and the source files are not written.
C9_SnapshotsUnchanged ==
    [][/\ session_state.products_df.set =>
              session_state'.products_df = session_state.products_df
       /\ session_state.sales_df.set =>
              session_state'.sales_df = session_state.sales_df
       /\ session_state'.products_df = Stored(LoadData(disk.products))
       /\ session_state'.sales_df = Stored(LoadData(disk.sales))
       /\ loads'.products <= 1 /\ loads'.sales <= 1
       /\ disk' = disk]_vars

\* A run caused by a form submission, after both sliders were moved, both
\* tables loaded and not empty.
C9_Witness ==
    /\ page.run /\ page.success = "product"
    /\ widgets.product_forecast_slider # SliderDefault
    /\ widgets.customer_forecast_slider # SliderDefault
    /\ Len(ProductRows) > 0 /\ Len(SalesRows) > 0
    /\ loads = [products |-> 1, sales |-> 1]

SaleDays == {SalesRows[i].TransactionDate : i \in 1..Len(SalesRows)}

\* C10: for a non-empty Transaction Table the per-day table handed to the
\* adapter has exactly one row per distinct TransactionDate, counting that
\* day's transactions, and the forecast is fitted and charted exactly when
\* the transactions fall on two days or more; on a single day the 'Not
\* enough data' warning is rendered.
C10_ForecastIffTwoDays ==
    (page.run /\ Len(SalesRows) > 0) =>
        /\ page.tab2.status = "rendered"
        /\ Len(page.tab2.daily) = Cardinality(SaleDays)
        /\ \A d \in SaleDays :
              \E k \in 1..Len(page.tab2.daily) :
                  /\ page.tab2.daily[k].TransactionDate = d
                  /\ page.tab2.daily[k].TransactionID =
                        Cardinality({i \in 1..Len(SalesRows) : SalesRows[i].TransactionDate = d})
        /\ (page.tab2.forecast = "chart") = (Cardinality(SaleDays) >= 2)
        /\ Cardinality(SaleDays) = 1 => page.tab2.forecast = "warning"

\* Two transactions on one day: the warning, no chart.
C10_Witness ==
    /\ page.run /\ Len(SalesRows) >= 2
    /\ Cardinality(SaleDays) = 1
    /\ page.tab2.forecast = "warning"

====
